---------------------------- MODULE Spec2Model ----------------------------
(***************************************************************************)
(* A model of the sparkdata backend (src/main.py, src/routes/*.py):        *)
(*   - match_leads        : fuzzy pairing of ads leads with CRM leads      *)
(*   - get_ads_summary    : fold of the Ads-API chunks into a summary      *)
(*   - analyze_roi, upload_data, cache_status : ROI and the upload cache,  *)
(*     call by call and as concurrent calls interleaved                    *)
(*   - google_callback and the token lookup of get_ads_summary             *)
(*   - SettingsService (src/services/settings_service.py): the key store   *)
(*                                                                         *)
(* Numbers.  The program computes in binary floating point and rounds      *)
(* with round(x, 2).  The model keeps every rounded amount as an integer   *)
(* number of hundredths and rounds the exact quotient half-to-even.        *)
(* Strings are sequences of one-character strings.                         *)
(***************************************************************************)
EXTENDS Integers, Sequences, FiniteSets, TLC

VARIABLES
    ml_pc,          \* match_leads: "idle", or "returned" once a call has run
    ml_request,     \* match_leads: the LeadMatchRequest of the call
    ml_response,    \* match_leads: the dict the call returns
    uploaded_data_cache,    \* the upload cache, a dict: a set of <<key, value>>
    roi_pc,         \* analyze_roi, upload_data, cache_status: "idle" or "returned"
    roi_call,       \* the call that ran: its handler and its argument
    roi_response,   \* what that call answered: a dict, or the exception raised
    google_auth_cache,  \* the OAuth token cache, a dict
    ads_pc,         \* get_ads_summary: "idle", "fold" (in the loops), "returned"
    ads_request,    \* get_ads_summary: the query parameters ad_spend, total_revenue
    upstream,       \* what the Ads API did with the one POST of the call
    ads_posts,      \* how many times the call has run requests.post
    data,           \* response.json(): the chunks
    chunk_i,        \* the chunk the outer loop is at (1-based)
    row_i,          \* the row the inner loop is at (1-based)
    results,        \* the per-row dicts appended so far
    total_impressions,
    total_clicks,
    total_cost,     \* in hundredths of a dollar
    total_conversions,
    ads_response,   \* the JSONResponse of the call: status_code and content
    api_keys,       \* the api_keys table: a set of rows
    next_id,        \* the id the table gives to the next inserted row
    global_settings_cache,  \* the plaintext key cache, a dict
    set_pc,         \* SettingsService calls: "idle" or "returned"
    set_call,       \* the call that ran: its method and arguments
    set_response,   \* the dict that call returned
    up_pc,          \* concurrent upload_data calls: "idle", "reading", "returned"
    up_file,        \* the file of each of them
    up_response,    \* what each of them answered
    an_pc,          \* a concurrent analyze_roi call without a request: "idle",
                    \* "found" (past line 93), "read", "checked", "returned"
    an_df,          \* its local df
    an_response,    \* what it answered
    st_pc,          \* a concurrent cache_status call: "idle", "found", "returned"
    st_response     \* what it answered

ml_vars == <<ml_pc, ml_request, ml_response>>
roi_vars == <<uploaded_data_cache, roi_pc, roi_call, roi_response>>
totals == <<total_impressions, total_clicks, total_cost, total_conversions>>
fold_vars == <<data, chunk_i, row_i, results, totals>>
ads_vars == <<google_auth_cache, ads_pc, ads_request, upstream, ads_posts,
              fold_vars, ads_response>>
set_vars == <<api_keys, next_id, global_settings_cache, set_pc, set_call, set_response>>
race_vars == <<up_pc, up_file, up_response, an_pc, an_df, an_response,
               st_pc, st_response>>
vars == <<ml_vars, roi_vars, ads_vars, set_vars, race_vars>>

\* Optional values: None is the empty tuple, a value v is <<v>>.
None == <<>>
Some(v) == <<v>>

----------------------------------------------------------------------------
(* Arithmetic helpers *)

Min(x, y) == IF x <= y THEN x ELSE y

\* floor(n / d) for d > 0 and any integer n
FloorDiv(n, d) == IF n >= 0 THEN n \div d ELSE -((-n + d - 1) \div d)

\* The integer nearest to n / d (d > 0), ties to the even integer: what
\* round(x, 2) does to the quotient once it is scaled to hundredths.
RoundHalfEven(n, d) ==
    LET q == FloorDiv(n, d)
        r == n - q * d
    IN  IF 2 * r < d THEN q
        ELSE IF 2 * r > d THEN q + 1
        ELSE IF q % 2 = 0 THEN q ELSE q + 1

RECURSIVE SeqSum(_)
SeqSum(s) == IF s = <<>> THEN 0 ELSE Head(s) + SeqSum(Tail(s))

----------------------------------------------------------------------------
(* match_leads: difflib.SequenceMatcher(None, a.lower(), b.lower()).ratio() *)

\* str.lower() on the characters of the model's alphabet
UpperToLower ==
    [A |-> "a", B |-> "b", C |-> "c", J |-> "j", L |-> "l", N |-> "n",
     O |-> "o", S |-> "s", V |-> "v", X |-> "x"]

LowerChar(ch) == IF ch \in DOMAIN UpperToLower THEN UpperToLower[ch] ELSE ch

lower(s) == [i \in 1..Len(s) |-> LowerChar(s[i])]

\* The length of the block common to a[..ahi-1] and b[..bhi-1] that starts
\* at a[i] and b[j].
RECURSIVE RunLength(_, _, _, _, _, _)
RunLength(a, b, i, j, ahi, bhi) ==
    IF i < ahi /\ j < bhi /\ a[i] = b[j]
    THEN 1 + RunLength(a, b, i + 1, j + 1, ahi, bhi)
    ELSE 0

\* The scan of find_longest_match: the start pairs (i, j) are visited with
\* i ascending and, for one i, j ascending (n counts them), and a block
\* replaces the best so far only when it is strictly longer.
RECURSIVE LongestFrom(_, _, _, _, _, _, _, _)
LongestFrom(a, b, alo, ahi, blo, bhi, n, best) ==
    IF n >= (ahi - alo) * (bhi - blo) THEN best
    ELSE LET i == alo + (n \div (bhi - blo))
             j == blo + (n % (bhi - blo))
             k == RunLength(a, b, i, j, ahi, bhi)
         IN  LongestFrom(a, b, alo, ahi, blo, bhi, n + 1,
                         IF k > best[3] THEN <<i, j, k>> ELSE best)

\* SequenceMatcher.find_longest_match(alo, ahi, blo, bhi) without junk:
\* the longest block common to a[alo..ahi-1] and b[blo..bhi-1]; of the
\* longest, the one starting earliest in a, and of those earliest in b.
\* <<alo, blo, 0>> when there is none.
find_longest_match(a, b, alo, ahi, blo, bhi) ==
    LongestFrom(a, b, alo, ahi, blo, bhi, 0, <<alo, blo, 0>>)

\* SequenceMatcher.get_matching_blocks, summed: the longest block, then the
\* pieces to its left and to its right, recursively.
RECURSIVE matching_size(_, _, _, _, _, _)
matching_size(a, b, alo, ahi, blo, bhi) ==
    LET m == find_longest_match(a, b, alo, ahi, blo, bhi)
        i == m[1]
        j == m[2]
        k == m[3]
    IN  IF k = 0 THEN 0
        ELSE k
             + (IF alo < i /\ blo < j
                THEN matching_size(a, b, alo, i, blo, j) ELSE 0)
             + (IF i + k < ahi /\ j + k < bhi
                THEN matching_size(a, b, i + k, ahi, j + k, bhi) ELSE 0)

\* SequenceMatcher.ratio() = 2.0 * matches / length, and 1.0 when both
\* strings are empty; kept as the exact fraction <<numerator, denominator>>.
ratio(a, b) ==
    LET length == Len(a) + Len(b)
    IN  IF length > 0
        THEN <<2 * matching_size(a, b, 1, Len(a) + 1, 1, Len(b) + 1), length>>
        ELSE <<1, 1>>

\* The e-mail strings tried: the empty string, two equal up to case, two
\* scoring exactly 0.8 ("abcab"/"abxab": blocks "ab" and "ab" of 10
\* characters), pairs scoring above it (6/7, 8/9) and below it.
Emails ==
    { <<>>,
      <<"a", "b", "c">>,
      <<"A", "B", "C">>,
      <<"a", "b", "c", "b">>,
      <<"a", "b", "c", "a", "b">>,
      <<"a", "b", "x", "a", "b">> }

\* <<ad_email, crm_email, score>> for every pair of the e-mails tried, the
\* score being SequenceMatcher(None, ad_email.lower(), crm_email.lower())
\* .ratio(): the scores are computed once and looked up afterwards.
ScoreTable ==
    {<<p[1], p[2], ratio(lower(p[1]), lower(p[2]))>> : p \in Emails \X Emails}

\* The score of one pair (main.py:124)
lowered_ratio(ad_email, crm_email) ==
    (CHOOSE t \in ScoreTable : t[1] = ad_email /\ t[2] = crm_email)[3]

\* A threshold that also lets a score of exactly 0.8 through.
AboveThresholdInclusive(r) == 10 * r[1] >= 8 * r[2]

\* `ratio > 0.8` (main.py:125)
AboveThreshold(r) == 10 * r[1] > 8 * r[2]

\* round(ratio, 2), in hundredths
match_score(r) == RoundHalfEven(100 * r[1], r[2])

\* The inner loop over crm_leads for one ad_email (main.py:123-130),
\* from index j on, appending to matches.
RECURSIVE CrmLoop(_, _, _, _)
CrmLoop(ad_email, crm_leads, j, matches) ==
    IF j > Len(crm_leads) THEN matches
    ELSE LET crm_email == crm_leads[j]
             r == lowered_ratio(ad_email, crm_email)
         IN  CrmLoop(ad_email, crm_leads, j + 1,
                     IF AboveThreshold(r)
                     THEN Append(matches, [ad_email    |-> ad_email,
                                           crm_email   |-> crm_email,
                                           match_score |-> match_score(r)])
                     ELSE matches)

\* The outer loop over ads_leads (main.py:122), from index i on.
RECURSIVE AdsLoop(_, _, _, _)
AdsLoop(ads_leads, crm_leads, i, matches) ==
    IF i > Len(ads_leads) THEN matches
    ELSE AdsLoop(ads_leads, crm_leads, i + 1,
                 CrmLoop(ads_leads[i], crm_leads, 1, matches))

\* A resolver that walks the CRM list in the outer loop.
RECURSIVE CrmOuterLoop(_, _, _, _)
CrmOuterLoop(ads_leads, crm_leads, j, matches) ==
    IF j > Len(crm_leads) THEN matches
    ELSE LET hits == CrmLoop(crm_leads[j], ads_leads, 1, <<>>)
         IN  CrmOuterLoop(ads_leads, crm_leads, j + 1,
                 matches \o [k \in 1..Len(hits) |->
                                [ad_email    |-> hits[k].crm_email,
                                 crm_email   |-> hits[k].ad_email,
                                 match_score |-> hits[k].match_score]])

CollectMatchesCrmOuter(ads_leads, crm_leads) ==
    CrmOuterLoop(ads_leads, crm_leads, 1, <<>>)

\* matches = [] and the two nested loops (main.py:121-130)
CollectMatches(ads_leads, crm_leads) == AdsLoop(ads_leads, crm_leads, 1, <<>>)

\* The handler's return value (main.py:131)
match_leads(request) ==
    LET matches == CollectMatches(request.ads_leads, request.crm_leads)
    IN  [matches |-> matches, total_matches |-> Len(matches)]

(* Inputs of match_leads *)
MaxAds == 2         \* longest ads_leads list tried
MaxCrm == 2         \* longest crm_leads list tried

SeqsUpTo(S, n) == UNION {[1..k -> S] : k \in 0..n}

\* No call in flight: nothing of an earlier call is kept.
NoMatchRequest == [ads_leads |-> <<>>, crm_leads |-> <<>>]
NoMatchResponse == [matches |-> <<>>, total_matches |-> 0]

MatchInit ==
    /\ ml_pc = "idle"
    /\ ml_request = NoMatchRequest
    /\ ml_response = NoMatchResponse

\* POST /match_leads: one call, request to response (main.py:119-131)
MatchLeads ==
    /\ ml_pc = "idle"
    /\ \E ads \in SeqsUpTo(Emails, MaxAds), crm \in SeqsUpTo(Emails, MaxCrm) :
          LET request == [ads_leads |-> ads, crm_leads |-> crm]
          IN  /\ ml_request' = request
              /\ ml_response' = match_leads(request)
    /\ ml_pc' = "returned"
    /\ UNCHANGED <<roi_vars, ads_vars, set_vars, race_vars>>

\* The response has been sent; the request and its matches are dropped
\* (nothing of a call persists).
MatchLeadsDone ==
    /\ ml_pc = "returned"
    /\ ml_pc' = "idle"
    /\ ml_request' = NoMatchRequest
    /\ ml_response' = NoMatchResponse
    /\ UNCHANGED <<roi_vars, ads_vars, set_vars, race_vars>>

MatchNext == MatchLeads \/ MatchLeadsDone

----------------------------------------------------------------------------
(* Claims about match_leads *)

\* The similarity score of two e-mails, case-folded, is strictly above 0.8:
\* 2M / T > 4/5, and the score of two empty strings is 1.
ScoresAbove08(ad_email, crm_email) ==
    LET r == lowered_ratio(ad_email, crm_email)
    IN  5 * r[1] > 4 * r[2]

ScoresExactly08(ad_email, crm_email) ==
    LET r == lowered_ratio(ad_email, crm_email)
    IN  5 * r[1] = 4 * r[2]

Returned(ad_email, crm_email) ==
    \E k \in 1..Len(ml_response.matches) :
        /\ ml_response.matches[k].ad_email = ad_email
        /\ ml_response.matches[k].crm_email = crm_email

\* C1: match_leads returns the pair (ad_email, crm_email) if and only if
\* its case-folded similarity score is strictly greater than 0.8: every
\* pair of ads_leads x crm_leads scoring above 0.8 is returned, and every
\* returned entry is a pair of the cross product scoring above 0.8 (so
\* none scores 0.8 or less).
C1_MatchIffScoreAbove08 ==
    ml_pc = "returned" =>
        /\ \A i \in 1..Len(ml_request.ads_leads), j \in 1..Len(ml_request.crm_leads) :
              Returned(ml_request.ads_leads[i], ml_request.crm_leads[j])
                  <=> ScoresAbove08(ml_request.ads_leads[i], ml_request.crm_leads[j])
        /\ \A k \in 1..Len(ml_response.matches) :
              /\ \E i \in 1..Len(ml_request.ads_leads) :
                    ml_request.ads_leads[i] = ml_response.matches[k].ad_email
              /\ \E j \in 1..Len(ml_request.crm_leads) :
                    ml_request.crm_leads[j] = ml_response.matches[k].crm_email
              /\ ScoresAbove08(ml_response.matches[k].ad_email,
                               ml_response.matches[k].crm_email)

\* A call in which one pair scores exactly 0.8 and is left out while
\* another pair, not of equal strings, is returned.
C1_Witness ==
    /\ ml_pc = "returned"
    /\ \E i \in 1..Len(ml_request.ads_leads), j \in 1..Len(ml_request.crm_leads) :
          /\ ScoresExactly08(ml_request.ads_leads[i], ml_request.crm_leads[j])
          /\ ~Returned(ml_request.ads_leads[i], ml_request.crm_leads[j])
    /\ \E k \in 1..Len(ml_response.matches) :
          /\ ml_response.matches[k].ad_email # ml_response.matches[k].crm_email
          /\ ml_response.matches[k].match_score < 100

\* The index pairs of the cross product that qualify.
Qualifying ==
    {q \in (1..Len(ml_request.ads_leads)) \X (1..Len(ml_request.crm_leads)) :
        ScoresAbove08(ml_request.ads_leads[q[1]], ml_request.crm_leads[q[2]])}

\* The place of index pair q among the qualifying ones, ads index first.
RowMajorRank(q) ==
    1 + Cardinality({p \in Qualifying :
                        p[1] < q[1] \/ (p[1] = q[1] /\ p[2] < q[2])})

\* C2: the matches are exactly the qualifying pairs of the full cross
\* product, one entry per qualifying index pair (no deduplication, no
\* one-to-one assignment), in ads-outer, crm-inner order; total_matches is
\* the number of entries.
C2_AllPairsInAdsOuterOrder ==
    ml_pc = "returned" =>
        /\ Len(ml_response.matches) = Cardinality(Qualifying)
        /\ ml_response.total_matches = Len(ml_response.matches)
        /\ \A q \in Qualifying :
              /\ ml_response.matches[RowMajorRank(q)].ad_email
                     = ml_request.ads_leads[q[1]]
              /\ ml_response.matches[RowMajorRank(q)].crm_email
                     = ml_request.crm_leads[q[2]]

\* A call in which one ads e-mail is paired with two different CRM e-mails
\* and one CRM e-mail with two different ads e-mails, every pair of the
\* cross product being reported.
C2_Witness ==
    /\ ml_pc = "returned"
    /\ ml_response.total_matches = 4
    /\ \E k1, k2 \in 1..Len(ml_response.matches) :
          /\ ml_response.matches[k1].ad_email = ml_response.matches[k2].ad_email
          /\ ml_response.matches[k1].crm_email # ml_response.matches[k2].crm_email
    /\ \E k1, k2 \in 1..Len(ml_response.matches) :
          /\ ml_response.matches[k1].crm_email = ml_response.matches[k2].crm_email
          /\ ml_response.matches[k1].ad_email # ml_response.matches[k2].ad_email

----------------------------------------------------------------------------
(* The upload cache, analyze_roi, upload_data and cache_status (main.py).  *)
(* Money is kept in hundredths: 1000.0 is 100000.                          *)

\* A dict is a set of <<key, value>> pairs with one pair per key.
Keys(dict) == {kv[1] : kv \in dict}
Get(dict, key) == (CHOOSE kv \in dict : kv[1] = key)[2]
\* dict[key] = value
Put(dict, key, value) == {kv \in dict : kv[1] # key} \cup {<<key, value>>}

\* A DataFrame: its column names in order and its rows, one tuple of cells
\* per row (a cell of the email column is a lead number).
DataFrame(columns, rows) == [columns |-> columns, data |-> rows]

\* df.columns as a set, for issubset
ColumnSet(df) == {df.columns[i] : i \in 1..Len(df.columns)}

ColumnIndex(df, name) == CHOOSE i \in 1..Len(df.columns) : df.columns[i] = name

\* df[name]: the cells of one column, in row order
Column(df, name) == [r \in 1..Len(df.data) |-> df.data[r][ColumnIndex(df, name)]]

\* The datasets tried: with both required columns (two rows, one row, no
\* row, an extra column), without revenue, without email.
Tables ==
    { DataFrame(<<"email", "revenue">>, << <<1, 50000>>, <<2, 150000>> >>),
      DataFrame(<<"email", "revenue">>, << <<1, 12345>> >>),
      DataFrame(<<"name", "email", "revenue">>, <<>>),
      DataFrame(<<"email", "spend">>, << <<1, 700>> >>),
      DataFrame(<<"revenue">>, << <<900>> >>) }

(* analyze_roi *)

\* LeadRecord (main.py:71-73): revenue is Optional[float] with default 0.0,
\* so a lead's revenue is a number or None.
LeadRecord(email, revenue) == [email |-> email, revenue |-> revenue]

\* AnalyzeRequest (main.py:76-78)
AnalyzeRequest(ad_spend, leads) == [ad_spend |-> ad_spend, leads |-> leads]

\* sum(lead.revenue for lead in request.leads): 0 plus each revenue in
\* turn; adding None raises TypeError.  The result is Some(total), or None
\* when the sum raises.
RECURSIVE SumRevenue(_, _, _)
SumRevenue(leads, i, total) ==
    IF i > Len(leads) THEN Some(total)
    ELSE IF leads[i].revenue = None THEN None
    ELSE SumRevenue(leads, i + 1, total + leads[i].revenue[1])

\* round(total_revenue / ad_spend if ad_spend > 0 else 0, 2), in hundredths
\* (main.py:85, 90 and main.py:102, 108)
Roi(total_revenue, ad_spend) ==
    IF ad_spend > 0 THEN RoundHalfEven(100 * total_revenue, ad_spend) ELSE 0

\* An unhandled exception: the call ends without a return value (the
\* framework answers 500).
Raised(exception) == [exception |-> exception]

\* The fixed ad spend of the cache branch, 1000.0 (main.py:100)
CacheAdSpend == 100000

\* The branch taken when a request is given (main.py:83-91)
AnalyzeInput(request) ==
    LET total_revenue == SumRevenue(request.leads, 1, 0)
    IN  IF total_revenue = None THEN Raised("TypeError")
        ELSE [source        |-> "input",
              ad_spend      |-> request.ad_spend,
              total_revenue |-> total_revenue[1],
              roi           |-> Roi(total_revenue[1], request.ad_spend)]

\* The branch taken without a request (main.py:93-109)
AnalyzeCache(cache) ==
    IF "latest" \notin Keys(cache)
    THEN [error |-> "No data provided and no cached upload found."]
    ELSE LET df == Get(cache, "latest")
         IN  IF ~({"email", "revenue"} \subseteq ColumnSet(df))
             THEN [error |-> "Cached data missing required columns: email, revenue."]
             ELSE LET ad_spend == CacheAdSpend
                      total_revenue == SeqSum(Column(df, "revenue"))
                  IN  [source        |-> "cache",
                       ad_spend      |-> ad_spend,
                       total_revenue |-> total_revenue,
                       roi           |-> Roi(total_revenue, ad_spend)]

\* analyze_roi(request: Optional[AnalyzeRequest] = None) (main.py:81-109);
\* request is None or Some(AnalyzeRequest).  `if request:` holds for every
\* request object.
analyze_roi(request, cache) ==
    IF request # None THEN AnalyzeInput(request[1]) ELSE AnalyzeCache(cache)

(* upload_data and cache_status *)

\* s.endswith(suffix)
endswith(s, suffix) ==
    /\ Len(s) >= Len(suffix)
    /\ SubSeq(s, Len(s) - Len(suffix) + 1, Len(s)) = suffix

\* The reader upload_data picks from the lower-cased file name
\* (main.py:157-164): "csv", "excel", "json", or "unsupported".
ReaderFor(filename) ==
    IF endswith(filename, <<".", "c", "s", "v">>) THEN "csv"
    ELSE IF endswith(filename, <<".", "x", "l", "s">>)
            \/ endswith(filename, <<".", "x", "l", "s", "x">>) THEN "excel"
    ELSE IF endswith(filename, <<".", "j", "s", "o", "n">>) THEN "json"
    ELSE "unsupported"

\* An uploaded file's bytes: the format they are written in and the table
\* they hold; "junk" bytes hold none.
Content(format, table) == [format |-> format, table |-> table]

\* pd.read_csv / pd.read_excel / pd.read_json on the bytes: Some(table)
\* when the bytes are in the reader's format, None when the reader raises.
pandas_read(reader, content) ==
    IF content.format = reader THEN Some(content.table) ELSE None

\* An upload that empties the slot before it reads the file, so that a
\* file the reader rejects leaves the cache empty.
upload_data_clear_first(file, cache) ==
    LET reader == ReaderFor(lower(file.filename))
        df == pandas_read(reader, file.content)
    IN  IF reader = "unsupported"
        THEN <<cache,
               [error |-> "Unsupported file type. Please upload CSV, Excel, or JSON."]>>
        ELSE IF df = None THEN <<{}, Raised("ParserError")>>
        ELSE <<Put(cache, "latest", df[1]),
               [filename |-> lower(file.filename),
                rows     |-> Len(df[1].data),
                columns  |-> df[1].columns,
                message  |-> "File uploaded and cached successfully."]>>

\* What upload_data does to the cache and what it answers
\* (main.py:152-172): <<cache afterwards, response>>.
upload_data(file, cache) ==
    LET filename == lower(file.filename)
        reader == ReaderFor(filename)
    IN  IF reader = "unsupported"
        THEN <<cache,
               [error |-> "Unsupported file type. Please upload CSV, Excel, or JSON."]>>
        ELSE LET df == pandas_read(reader, file.content)
             IN  IF df = None THEN <<cache, Raised("ParserError")>>
                 ELSE <<Put(cache, "latest", df[1]),
                        [filename |-> filename,
                         rows     |-> Len(df[1].data),
                         columns  |-> df[1].columns,
                         message  |-> "File uploaded and cached successfully."]>>

\* cache_status() (main.py:175-180)
cache_status(cache) ==
    IF "latest" \notin Keys(cache)
    THEN [cached |-> FALSE, message |-> "No data currently cached."]
    ELSE LET df == Get(cache, "latest")
         IN  [cached |-> TRUE, rows |-> Len(df.data), columns |-> df.columns]

(* Inputs *)
MaxLeads == 2       \* longest leads list tried

\* ad_spend: -5.00, 0, 3.00, 1000.00
AdSpends == {-500, 0, 300, 100000}

\* A lead's revenue: null, 0.0 (also the default), 100.00, 500.25
LeadRevenues == {None, Some(0), Some(10000), Some(50025)}

Leads == {LeadRecord("a@x.com", revenue) : revenue \in LeadRevenues}

AnalyzeRequests ==
    {AnalyzeRequest(ad_spend, leads) :
        ad_spend \in AdSpends, leads \in SeqsUpTo(Leads, MaxLeads)}

FileNames ==
    { <<"l", ".", "c", "s", "v">>,
      <<"L", ".", "C", "S", "V">>,
      <<"l", ".", "x", "l", "s">>,
      <<"l", ".", "X", "l", "s", "x">>,
      <<"l", ".", "j", "s", "o", "n">>,
      <<"l", ".", "t", "x", "t">>,
      <<"c", "s", "v">>,
      <<"l", ".", "c", "s", "v", ".", "b", "a", "k">> }

NoTable == DataFrame(<<>>, <<>>)

Contents ==
    {Content(format, table) : format \in {"csv", "excel", "json"}, table \in Tables}
        \cup {Content("junk", NoTable)}

UploadFiles ==
    {[filename |-> filename, content |-> content] :
        filename \in FileNames, content \in Contents}

\* No call in flight
NoCall == [op |-> "none", request |-> None, file |-> None]

AnalyzeCall(request) == [op |-> "analyze_roi", request |-> request, file |-> None]
UploadCall(file) == [op |-> "upload_data", request |-> None, file |-> Some(file)]
StatusCall == [op |-> "cache_status", request |-> None, file |-> None]

\* The cache module's dict starts empty (imported at main.py:15).
RoiInit ==
    /\ uploaded_data_cache = {}
    /\ roi_pc = "idle"
    /\ roi_call = NoCall
    /\ roi_response = [none |-> TRUE]

\* POST /analyze_roi with a request body or without one
AnalyzeRoi ==
    /\ roi_pc = "idle"
    /\ \E request \in {None} \cup {Some(r) : r \in AnalyzeRequests} :
          /\ roi_call' = AnalyzeCall(request)
          /\ roi_response' = analyze_roi(request, uploaded_data_cache)
    /\ roi_pc' = "returned"
    /\ UNCHANGED <<uploaded_data_cache, ml_vars, ads_vars, set_vars, race_vars>>

\* POST /upload_data
UploadData ==
    /\ roi_pc = "idle"
    /\ \E file \in UploadFiles :
          LET result == upload_data(file, uploaded_data_cache)
          IN  /\ roi_call' = UploadCall(file)
              /\ uploaded_data_cache' = result[1]
              /\ roi_response' = result[2]
    /\ roi_pc' = "returned"
    /\ UNCHANGED <<ml_vars, ads_vars, set_vars, race_vars>>

\* GET /cache_status
CacheStatus ==
    /\ roi_pc = "idle"
    /\ roi_call' = StatusCall
    /\ roi_response' = cache_status(uploaded_data_cache)
    /\ roi_pc' = "returned"
    /\ UNCHANGED <<uploaded_data_cache, ml_vars, ads_vars, set_vars, race_vars>>

\* The response has been sent; the next call can start.  The cache stays.
RoiCallDone ==
    /\ roi_pc = "returned"
    /\ roi_pc' = "idle"
    /\ roi_call' = NoCall
    /\ roi_response' = [none |-> TRUE]
    /\ UNCHANGED <<uploaded_data_cache, ml_vars, ads_vars, set_vars, race_vars>>

RoiNext == AnalyzeRoi \/ UploadData \/ CacheStatus \/ RoiCallDone

----------------------------------------------------------------------------
(* Claims about analyze_roi and the upload cache *)

AnalyzeReturned == roi_pc = "returned" /\ roi_call.op = "analyze_roi"

NoDataError == [error |-> "No data provided and no cached upload found."]
MissingColumnsError ==
    [error |-> "Cached data missing required columns: email, revenue."]

\* The cached dataset has both required columns.
CachedHasColumns ==
    LET df == Get(uploaded_data_cache, "latest")
    IN  /\ \E i \in 1..Len(df.columns) : df.columns[i] = "email"
        /\ \E i \in 1..Len(df.columns) : df.columns[i] = "revenue"

\* The sum of the cached revenue column
CachedRevenue ==
    LET df == Get(uploaded_data_cache, "latest")
        c == CHOOSE i \in 1..Len(df.columns) : df.columns[i] = "revenue"
    IN  SeqSum([r \in 1..Len(df.data) |-> df.data[r][c]])

\* C5: every analyze_roi call produces exactly one of four outcomes, by a
\* fixed policy: with a request payload the result is tagged "input",
\* whatever the cache holds; without one it is the no-data error when the
\* slot is empty, else the missing-columns error when the cached dataset
\* lacks email or revenue, else a result tagged "cache" with ad_spend
\* 1000.0 and total_revenue the sum of the revenue column.
C5_SourceSelection ==
    AnalyzeReturned =>
        IF roi_call.request # None
        THEN /\ "source" \in DOMAIN roi_response
             /\ roi_response.source = "input"
        ELSE IF uploaded_data_cache = {}
        THEN roi_response = NoDataError
        ELSE IF ~CachedHasColumns
        THEN roi_response = MissingColumnsError
        ELSE /\ "source" \in DOMAIN roi_response
             /\ roi_response.source = "cache"
             /\ roi_response.ad_spend = 100000
             /\ roi_response.total_revenue = CachedRevenue

\* The revenue values of a lead list, None counted as absent
RevenueValues(leads) ==
    [i \in 1..Len(leads) |->
        IF leads[i].revenue = None THEN 0 ELSE leads[i].revenue[1]]

\* C6: for every input-sourced analyze_roi request the call answers a
\* result, never an error: total_revenue is the sum of the leads' revenue
\* values (0 for an empty list), and roi is total_revenue / ad_spend
\* rounded to 2 decimals when ad_spend > 0 and 0 when ad_spend <= 0.
C6_InputRoi ==
    (AnalyzeReturned /\ roi_call.request # None) =>
        LET request == roi_call.request[1]
            total == SeqSum(RevenueValues(request.leads))
        IN  /\ "source" \in DOMAIN roi_response
            /\ roi_response.total_revenue = total
            /\ request.leads = <<>> => roi_response.total_revenue = 0
            /\ request.ad_spend > 0 =>
                   \* roi is the hundredth nearest to total / ad_spend
                   /\ 2 * (100 * total - roi_response.roi * request.ad_spend)
                          <= request.ad_spend
                   /\ 2 * (roi_response.roi * request.ad_spend - 100 * total)
                          <= request.ad_spend
            /\ request.ad_spend <= 0 => roi_response.roi = 0

\* The file name, lower-cased, ends in one of the accepted suffixes.
SupportedName(filename) ==
    \E suffix \in { <<".", "c", "s", "v">>, <<".", "x", "l", "s">>,
                    <<".", "x", "l", "s", "x">>, <<".", "j", "s", "o", "n">> } :
        LET name == lower(filename)
            n == Len(name)
            k == Len(suffix)
        IN  n >= k /\ \A i \in 1..k : name[n - k + i] = suffix[i]

UploadSucceeded(call, response) ==
    call.op = "upload_data" /\ "message" \in DOMAIN response

\* C10: the upload cache is one slot keyed "latest" that only a
\* successfully parsed upload_data call writes, by overwriting it with the
\* dataset it parsed: in every step the slot either keeps its value or
\* takes the dataset of the upload that succeeds in that step; analyze_roi,
\* cache_status, an upload of an unsupported file type and an upload the
\* parser rejects leave it as it was.  (So after any sequence of calls the
\* slot holds the dataset of the last successful upload, or is empty.)
C10_OnlySuccessfulUploadWritesSlot ==
    [][ /\ Keys(uploaded_data_cache') \subseteq {"latest"}
        /\ UploadSucceeded(roi_call', roi_response') /\ roi_pc = "idle"
              => uploaded_data_cache' = {<<"latest", roi_call'.file[1].content.table>>}
        /\ ~(UploadSucceeded(roi_call', roi_response') /\ roi_pc = "idle")
              => uploaded_data_cache' = uploaded_data_cache
        /\ (roi_call'.op = "upload_data" /\ ~SupportedName(roi_call'.file[1].filename))
              => /\ uploaded_data_cache' = uploaded_data_cache
                 /\ "error" \in DOMAIN roi_response'
      ]_vars

\* An upload of an unsupported file type has just been rejected, and the
\* dataset cached by an earlier upload is still in the slot.
C10_Witness ==
    /\ roi_pc = "returned"
    /\ roi_call.op = "upload_data"
    /\ ~SupportedName(roi_call.file[1].filename)
    /\ "error" \in DOMAIN roi_response
    /\ uploaded_data_cache # {}
    /\ Get(uploaded_data_cache, "latest") # roi_call.file[1].content.table

----------------------------------------------------------------------------
(* get_ads_summary (routes/google_routes.py) and the token cache            *)
(* (main.py, google_callback).  Dollar amounts and ratios are in           *)
(* hundredths; cost_micros is in millionths of a dollar.                   *)

\* dict.get(key, default) on an optional entry
GetOr(entry, default) == IF entry = None THEN default ELSE entry[1]

\* Python truthiness of an optional number (None and 0 are false) and of
\* an optional string (None and "" are false)
Truthy(entry) == entry # None /\ entry[1] # 0
TruthyStr(entry) == entry # None /\ entry[1] # ""

\* round(n / d, 2) scaled by the caller to hundredths: Some(value), or
\* None when d = 0 and the division raises ZeroDivisionError.
RoundedQuotient(n, d) ==
    IF d = 0 THEN None
    ELSE IF d > 0 THEN Some(RoundHalfEven(n, d))
    ELSE Some(RoundHalfEven(-n, -d))

\* round((clicks / impressions) * 100, 2) if impressions else 0
\* (google_routes.py:167 and :187)
Ctr(clicks, impressions) ==
    IF impressions # 0 THEN RoundedQuotient(clicks * 10000, impressions) ELSE Some(0)

\* A cpc guarded by impressions instead of clicks.
CpcGuardedByImpressions(spend, clicks, impressions) ==
    IF impressions # 0 THEN RoundedQuotient(spend, clicks) ELSE Some(0)

\* round((spend_usd / clicks), 2) if clicks else 0
\* (google_routes.py:168 and :188); impressions is not read.
Cpc(spend, clicks, impressions) ==
    IF clicks # 0 THEN RoundedQuotient(spend, clicks) ELSE Some(0)

\* round((spend_usd / impressions * 1000), 2) if impressions else 0
\* (google_routes.py:169 and :189)
Cpm(spend, impressions) ==
    IF impressions # 0 THEN RoundedQuotient(spend * 1000, impressions) ELSE Some(0)

\* One iteration of the inner loop up to the append (google_routes.py:
\* 160-169, 176-185): the row's dict, or the exception raised.  row is
\* [segments |-> optional dict, metrics |-> optional dict]; row["metrics"]
\* and row["segments"] raise KeyError when the key is absent.
normalize(row) ==
    IF row.metrics = None THEN Raised("KeyError")
    ELSE LET metrics == row.metrics[1]
             impressions == GetOr(metrics.impressions, 0)
             clicks == GetOr(metrics.clicks, 0)
             cost_micros == GetOr(metrics.cost_micros, 0)
             conversions == GetOr(metrics.conversions, 0)
             spend_usd == RoundHalfEven(cost_micros, 10000)
         IN  IF row.segments = None THEN Raised("KeyError")
             ELSE LET date == row.segments[1].date
                      ctr == Ctr(clicks, impressions)
                      cpc == Cpc(spend_usd, clicks, impressions)
                      cpm == Cpm(spend_usd, impressions)
                  IN  IF ctr = None \/ cpc = None \/ cpm = None
                      THEN Raised("ZeroDivisionError")
                      ELSE [date        |-> date,
                            impressions |-> impressions,
                            clicks      |-> clicks,
                            ctr         |-> ctr[1],
                            cpc         |-> cpc[1],
                            cpm         |-> cpm[1],
                            conversions |-> conversions,
                            spend_usd   |-> spend_usd]

\* total_roas (google_routes.py:190): None unless ad_spend and
\* total_revenue are both truthy and ad_spend > 0.
Roas(ad_spend, revenue) ==
    IF Truthy(ad_spend) /\ Truthy(revenue) /\ ad_spend[1] > 0
    THEN Some(RoundHalfEven(100 * revenue[1], ad_spend[1]))
    ELSE None

\* The mean of the per-row values of one ratio, in hundredths.
RECURSIVE FieldSum(_, _)
FieldSum(rows, field) ==
    IF rows = <<>> THEN 0 ELSE Head(rows)[field] + FieldSum(Tail(rows), field)

MeanOf(rows, field) ==
    IF rows = <<>> THEN 0 ELSE RoundHalfEven(FieldSum(rows, field), Len(rows))

\* A summary whose ratios are the averages of the per-row ratios.
summarize_mean_of_rows(impressions, clicks, cost, conversions, rows, request) ==
    [impressions |-> impressions,
     clicks      |-> clicks,
     ctr         |-> MeanOf(rows, "ctr"),
     cpc         |-> MeanOf(rows, "cpc"),
     cpm         |-> MeanOf(rows, "cpm"),
     spend_usd   |-> cost,
     conversions |-> conversions,
     roas        |-> Roas(request.ad_spend, request.total_revenue)]

\* The summary built after the loops (google_routes.py:187-201) from the
\* running totals, or the exception raised; rows (the results list) is
\* not read.
summarize(impressions, clicks, cost, conversions, rows, request) ==
    LET total_ctr == Ctr(clicks, impressions)
        total_cpc == Cpc(cost, clicks, impressions)
        total_cpm == Cpm(cost, impressions)
    IN  IF total_ctr = None \/ total_cpc = None \/ total_cpm = None
        THEN Raised("ZeroDivisionError")
        ELSE [impressions |-> impressions,
              clicks      |-> clicks,
              ctr         |-> total_ctr[1],
              cpc         |-> total_cpc[1],
              cpm         |-> total_cpm[1],
              spend_usd   |-> cost,
              conversions |-> conversions,
              roas        |-> Roas(request.ad_spend, request.total_revenue)]

\* The size of the records list in the response (google_routes.py:208)
RecordsCap == 25

\* A slice that keeps the last RecordsCap rows.
LastRecords(rows) ==
    SubSeq(rows, Len(rows) - Min(RecordsCap, Len(rows)) + 1, Len(rows))

\* results[:25]
FirstRecords(rows) == SubSeq(rows, 1, Min(RecordsCap, Len(rows)))

\* The 200 response (google_routes.py:203-216)
SummaryResponse(summary, rows, request) ==
    [status_code |-> 200,
     content |-> [status  |-> "success",
                  summary |-> summary,
                  records |-> FirstRecords(rows),
                  meta    |-> [ad_spend      |-> request.ad_spend,
                               total_revenue |-> request.total_revenue]]]

\* An answer that hides the upstream status behind 502.
UpstreamErrorAs502(response) ==
    [status_code |-> 502,
     content |-> [error |-> "Failed to retrieve Ads data.", details |-> response.text]]

\* The answer to a non-200 upstream response (google_routes.py:145-149)
UpstreamError(response) ==
    [status_code |-> response.status_code,
     content |-> [error |-> "Failed to retrieve Ads data.", details |-> response.text]]

\* The answer when requests.post raises (google_routes.py:141-143)
RequestFailed(exception) ==
    [status_code |-> 500,
     content |-> [error |-> <<"Request failed: ", exception.text>>]]

\* An exception no handler catches: the framework answers 500.
Unhandled(exception) ==
    [status_code |-> 500, content |-> Raised(exception)]

NoTokens ==
    [status_code |-> 401,
     content |-> [error |-> "No Google tokens found. Please authorize first at /auth/login."]]

TokenLoadFailed ==
    [status_code |-> 500,
     content |-> [error |-> "Failed to load Google tokens from database."]]

AccessTokenMissing ==
    [status_code |-> 401, content |-> [error |-> "Access token missing or invalid."]]

(* Inputs of get_ads_summary *)
MaxFew == 3         \* row counts 0..MaxFew are tried, and
MaxBeyond == 2      \* row counts RecordsCap-1 .. RecordsCap+MaxBeyond

RowCounts == (0..MaxFew) \cup ((RecordsCap - 1)..(RecordsCap + MaxBeyond))

Metrics(impressions, clicks, cost_micros, conversions) ==
    [impressions |-> impressions, clicks |-> clicks,
     cost_micros |-> cost_micros, conversions |-> conversions]

\* A well-formed row; its date is filled in from its place of arrival.
MetricRow(metrics) == [segments |-> Some([date |-> None]), metrics |-> Some(metrics)]

\* Row patterns, repeated cyclically to the row count: mixed rows (clicks
\* without impressions, impressions without clicks, absent counters),
\* all-zero rows, two rows with round figures, and two patterns
\* with a row that lacks "metrics" or "segments".
RowPatterns ==
    { << MetricRow(Metrics(Some(1000), Some(50), Some(5000000), Some(5))),
         MetricRow(Metrics(Some(300), Some(0), Some(1234567), Some(0))),
         MetricRow(Metrics(None, Some(7), Some(2100000), None)),
         MetricRow(Metrics(Some(0), Some(0), Some(0), Some(0))),
         MetricRow(Metrics(Some(40), Some(3), None, Some(1))) >>,
      << MetricRow(Metrics(Some(0), Some(0), Some(0), Some(0))) >>,
      << MetricRow(Metrics(Some(100), Some(10), Some(1000000), Some(1))),
         MetricRow(Metrics(Some(200), Some(20), Some(2000000), Some(2))) >>,
      << MetricRow(Metrics(Some(100), Some(10), Some(1000000), Some(1))),
         [segments |-> Some([date |-> None]), metrics |-> None] >>,
      << MetricRow(Metrics(Some(100), Some(10), Some(1000000), Some(1))),
         [segments |-> None,
          metrics |-> Some(Metrics(Some(200), Some(20), Some(2000000), Some(2)))] >> }

\* The k-th row to arrive: the pattern's row with date k.
RowAt(pattern, k) ==
    LET row == pattern[((k - 1) % Len(pattern)) + 1]
    IN  IF row.segments = None THEN row
        ELSE [row EXCEPT !.segments = Some([date |-> Some(k)])]

\* How the rows are split: chunks of `size` rows, after a first chunk
\* without a "results" key when `bare` is set.
Chunkings == { [size |-> 1, bare |-> FALSE],
               [size |-> 4, bare |-> TRUE],
               [size |-> 30, bare |-> FALSE] }

ChunkCount(n, size) == (n + size - 1) \div size

\* response.json() for n rows of a pattern under a chunking
Chunks(pattern, n, chunking) ==
    LET full == [c \in 1..ChunkCount(n, chunking.size) |->
                    [results |-> Some([r \in 1..Min(chunking.size,
                                                    n - (c - 1) * chunking.size) |->
                                          RowAt(pattern, (c - 1) * chunking.size + r)])]]
    IN  IF chunking.bare THEN <<[results |-> None]>> \o full ELSE full

DataSets ==
    {Chunks(pattern, n, chunking) :
        pattern \in RowPatterns, n \in RowCounts, chunking \in Chunkings}

\* What the Ads API does with the POST: a 200 response with chunks, a
\* non-200 response with a body, or no response (requests.post raises).
Upstreams ==
    {[kind |-> "response", status_code |-> 200, text |-> "[...]", json |-> d] :
        d \in DataSets}
    \cup {[kind |-> "response", status_code |-> code, text |-> body, json |-> <<>>] :
            code \in {401, 429, 503}, body \in {"{\"error\": {}}", ""}}
    \cup {[kind |-> "exception", status_code |-> 0, text |-> "ConnectionError", json |-> <<>>]}

\* ad_spend and total_revenue: omitted, 0, negative, positive
AdsRequests ==
    {[ad_spend |-> ad_spend, total_revenue |-> total_revenue] :
        ad_spend \in {None, Some(0), Some(-300), Some(300)},
        total_revenue \in {None, Some(0), Some(3000)}}

\* What oauth.fetch_token returns
Tokens ==
    { [access_token |-> Some("ya29.a"), refresh_token |-> Some("1//r")],
      [access_token |-> Some(""), refresh_token |-> Some("1//r")],
      [access_token |-> None, refresh_token |-> None] }

NoAdsRequest == [ad_spend |-> None, total_revenue |-> None]
NoUpstream == [kind |-> "none", status_code |-> 0, text |-> "", json |-> <<>>]
NoAdsResponse == [status_code |-> 0, content |-> [none |-> TRUE]]

\* The locals of a call that is not in its loops
FoldIdle ==
    /\ data = <<>>
    /\ chunk_i = 1
    /\ row_i = 1
    /\ results = <<>>
    /\ total_impressions = 0
    /\ total_clicks = 0
    /\ total_cost = 0
    /\ total_conversions = 0

\* results = [] and the four totals = 0 (google_routes.py:152-156), the
\* loops at their first chunk and row
StartFold ==
    /\ chunk_i' = 1
    /\ row_i' = 1
    /\ results' = <<>>
    /\ total_impressions' = 0
    /\ total_clicks' = 0
    /\ total_cost' = 0
    /\ total_conversions' = 0

\* The token cache starts empty (imported at main.py:15).
AdsInit ==
    /\ google_auth_cache = {}
    /\ ads_pc = "idle"
    /\ ads_request = NoAdsRequest
    /\ upstream = NoUpstream
    /\ ads_posts = 0
    /\ FoldIdle
    /\ ads_response = NoAdsResponse

\* GET /auth/callback (main.py:254-293): the exchanged token is cached
\* under "latest".  The import of update_or_create_key fails (it is not
\* defined in routes/settings_routes.py) and the failure is only printed.
GoogleCallback ==
    /\ ads_pc = "idle"
    /\ \E token \in Tokens : google_auth_cache' = Put(google_auth_cache, "latest", token)
    /\ UNCHANGED <<ads_pc, ads_request, upstream, ads_posts, fold_vars, ads_response>>
    /\ UNCHANGED <<ml_vars, roi_vars, set_vars, race_vars>>

\* get_ads_summary ends before the POST (google_routes.py:90-108): the
\* cache has no token and the fallback fails (get_api_key is not defined,
\* so the call raises NameError inside the try), or the token has no
\* access_token.
AdsSummaryNoToken ==
    /\ ads_pc = "idle"
    /\ IF "latest" \notin Keys(google_auth_cache) THEN TRUE
       ELSE ~TruthyStr(Get(google_auth_cache, "latest").access_token)
    /\ \E request \in AdsRequests : ads_request' = request
    /\ ads_response' = IF "latest" \notin Keys(google_auth_cache)
                       THEN TokenLoadFailed ELSE AccessTokenMissing
    /\ ads_pc' = "returned"
    /\ UNCHANGED <<google_auth_cache, upstream, ads_posts, fold_vars>>
    /\ UNCHANGED <<ml_vars, roi_vars, set_vars, race_vars>>

\* get_ads_summary up to the loops (google_routes.py:90-156): with an
\* access token the POST is made, once; a raised exception or a non-200
\* status ends the call, a 200 response starts the fold.
AdsSummaryPost ==
    /\ ads_pc = "idle"
    /\ "latest" \in Keys(google_auth_cache)
    /\ TruthyStr(Get(google_auth_cache, "latest").access_token)
    /\ \E request \in AdsRequests : ads_request' = request
    /\ ads_posts' = ads_posts + 1
    /\ \E response \in Upstreams :
          /\ upstream' = response
          /\ IF response.kind = "exception"
             THEN /\ ads_response' = RequestFailed(response)
                  /\ ads_pc' = "returned"
                  /\ UNCHANGED fold_vars
             ELSE IF response.status_code # 200
             THEN /\ ads_response' = UpstreamError(response)
                  /\ ads_pc' = "returned"
                  /\ UNCHANGED fold_vars
             ELSE /\ data' = response.json
                  /\ StartFold
                  /\ ads_pc' = "fold"
                  /\ UNCHANGED ads_response
    /\ UNCHANGED google_auth_cache
    /\ UNCHANGED <<ml_vars, roi_vars, set_vars, race_vars>>

\* chunk.get("results", []) of the chunk the outer loop is at
ChunkRows == GetOr(data[chunk_i].results, <<>>)

\* One iteration of the inner loop (google_routes.py:159-185)
AdsFoldRow ==
    /\ ads_pc = "fold"
    /\ chunk_i <= Len(data)
    /\ row_i <= Len(ChunkRows)
    /\ LET row == normalize(ChunkRows[row_i])
       IN  IF "exception" \in DOMAIN row
           THEN /\ ads_response' = Unhandled(row.exception)
                /\ ads_pc' = "returned"
                /\ UNCHANGED <<row_i, results, totals>>
           ELSE /\ total_impressions' = total_impressions + row.impressions
                /\ total_clicks' = total_clicks + row.clicks
                /\ total_cost' = total_cost + row.spend_usd
                /\ total_conversions' = total_conversions + row.conversions
                /\ results' = Append(results, row)
                /\ row_i' = row_i + 1
                /\ UNCHANGED <<ads_response, ads_pc>>
    /\ UNCHANGED <<google_auth_cache, ads_request, upstream, ads_posts, data, chunk_i>>
    /\ UNCHANGED <<ml_vars, roi_vars, set_vars, race_vars>>

\* The inner loop is through with its chunk: the outer loop moves on
\* (google_routes.py:158-159).
AdsNextChunk ==
    /\ ads_pc = "fold"
    /\ chunk_i <= Len(data)
    /\ row_i > Len(ChunkRows)
    /\ chunk_i' = chunk_i + 1
    /\ row_i' = 1
    /\ UNCHANGED <<google_auth_cache, ads_pc, ads_request, upstream, ads_posts,
                   data, results, totals, ads_response>>
    /\ UNCHANGED <<ml_vars, roi_vars, set_vars, race_vars>>

\* After the loops (google_routes.py:187-216): the summary and the
\* response.
AdsSummaryReturn ==
    /\ ads_pc = "fold"
    /\ chunk_i > Len(data)
    /\ LET summary == summarize(total_impressions, total_clicks, total_cost,
                                total_conversions, results, ads_request)
       IN  ads_response' = IF "exception" \in DOMAIN summary
                           THEN Unhandled(summary.exception)
                           ELSE SummaryResponse(summary, results, ads_request)
    /\ ads_pc' = "returned"
    /\ UNCHANGED <<google_auth_cache, ads_request, upstream, ads_posts, fold_vars>>
    /\ UNCHANGED <<ml_vars, roi_vars, set_vars, race_vars>>

\* The response has been sent: the call's locals are gone, the token
\* cache stays.
AdsSummaryDone ==
    /\ ads_pc = "returned"
    /\ ads_pc' = "idle"
    /\ ads_request' = NoAdsRequest
    /\ upstream' = NoUpstream
    /\ ads_posts' = 0
    /\ data' = <<>>
    /\ StartFold
    /\ ads_response' = NoAdsResponse
    /\ UNCHANGED google_auth_cache
    /\ UNCHANGED <<ml_vars, roi_vars, set_vars, race_vars>>

AdsNext ==
    \/ GoogleCallback
    \/ AdsSummaryNoToken
    \/ AdsSummaryPost
    \/ AdsFoldRow
    \/ AdsNextChunk
    \/ AdsSummaryReturn
    \/ AdsSummaryDone

----------------------------------------------------------------------------
(* Claims about get_ads_summary *)

\* The call has answered 200 with a summary.
AdsOk == ads_pc = "returned" /\ ads_response.status_code = 200

\* The rows of all chunks in arrival order: chunk order, then row order
\* within a chunk; a chunk without "results" has no rows.
RECURSIVE ArrivedRows(_)
ArrivedRows(chunks) ==
    IF chunks = <<>> THEN <<>>
    ELSE (IF Head(chunks).results = None THEN <<>> ELSE Head(chunks).results[1])
             \o ArrivedRows(Tail(chunks))

\* A raw counter of a row, 0 when the key is absent
Counter(row, name) ==
    IF row.metrics[1][name] = None THEN 0 ELSE row.metrics[1][name][1]

RECURSIVE CounterSum(_, _)
CounterSum(rows, name) ==
    IF rows = <<>> THEN 0
    ELSE Counter(Head(rows), name) + CounterSum(Tail(rows), name)

\* x is an integer nearest to n / d (d > 0)
Nearest(x, n, d) == 2 * (n - x * d) <= d /\ 2 * (x * d - n) <= d

\* A row's spend in hundredths: cost_micros / 1 000 000 to 2 decimals
SpendOf(row) ==
    CHOOSE x \in 0..(Counter(row, "cost_micros") \div 10000 + 1) :
        /\ Nearest(x, Counter(row, "cost_micros"), 10000)
        /\ (2 * (Counter(row, "cost_micros") % 10000) = 10000 => x % 2 = 0)

RECURSIVE SpendSum(_)
SpendSum(rows) ==
    IF rows = <<>> THEN 0 ELSE SpendOf(Head(rows)) + SpendSum(Tail(rows))

\* C3: when the fold ends in a summary, its totals (impressions, clicks,
\* spend, conversions) are the sums over every row of every chunk, and the
\* records list is exactly the first min(25, N) rows, normalized, in
\* arrival order, N being the number of rows: rows after the 25th count
\* in the totals and are not in the records.
C3_TotalsOfAllRowsFirst25Records ==
    AdsOk =>
        LET rows == ArrivedRows(data)
            summary == ads_response.content.summary
            records == ads_response.content.records
        IN  /\ summary.impressions = CounterSum(rows, "impressions")
            /\ summary.clicks = CounterSum(rows, "clicks")
            /\ summary.conversions = CounterSum(rows, "conversions")
            /\ summary.spend_usd = SpendSum(rows)
            /\ Len(records) = (IF Len(rows) < 25 THEN Len(rows) ELSE 25)
            /\ \A k \in 1..Len(records) :
                  /\ records[k].date = rows[k].segments[1].date
                  /\ records[k].impressions = Counter(rows[k], "impressions")
                  /\ records[k].clicks = Counter(rows[k], "clicks")
                  /\ records[k].conversions = Counter(rows[k], "conversions")
                  /\ records[k].spend_usd = SpendOf(rows[k])

\* A summary of more than 25 rows: 25 records, and totals that exceed what
\* the records add up to.
C3_Witness ==
    /\ AdsOk
    /\ Len(ArrivedRows(data)) > 25
    /\ Len(ads_response.content.records) = 25
    /\ ads_response.content.summary.impressions
           > FieldSum(ads_response.content.records, "impressions")
    /\ Len(data) > 1

\* C4: in the summary, roas is present and equals total_revenue / ad_spend
\* rounded to 2 decimals exactly when ad_spend and total_revenue are both
\* supplied and ad_spend > 0, whatever the supplied values; otherwise it
\* is absent (null).
C4_RoasWhenSuppliedAndPositive ==
    AdsOk =>
        LET ad_spend == ads_request.ad_spend
            total_revenue == ads_request.total_revenue
            roas == ads_response.content.summary.roas
        IN  IF ad_spend # None /\ total_revenue # None /\ ad_spend[1] > 0
            THEN /\ roas # None
                 /\ Nearest(roas[1], 100 * total_revenue[1], ad_spend[1])
            ELSE roas = None

WellFormed(rows) ==
    \A k \in 1..Len(rows) : rows[k].metrics # None /\ rows[k].segments # None

\* C7: with non-negative counters no division by zero is evaluated: no
\* call ends in ZeroDivisionError; every row folded has ctr = cpm = 0 when
\* its impressions are 0 and cpc = 0 when its clicks are 0; the aggregate
\* has ctr = cpm = 0 when total impressions are 0 and cpc = 0 when total
\* clicks are 0; and a 200 response from upstream whose rows all have
\* their metrics and segments always ends in a summary, also for no rows
\* and for all-zero rows.
C7_NoDivisionByZero ==
    /\ ads_response.content # Raised("ZeroDivisionError")
    /\ \A k \in 1..Len(results) :
          /\ results[k].impressions = 0 => results[k].ctr = 0 /\ results[k].cpm = 0
          /\ results[k].clicks = 0 => results[k].cpc = 0
    /\ AdsOk =>
          LET summary == ads_response.content.summary
          IN  /\ summary.impressions = 0 => summary.ctr = 0 /\ summary.cpm = 0
              /\ summary.clicks = 0 => summary.cpc = 0
    /\ (ads_pc = "returned" /\ upstream.kind = "response"
            /\ upstream.status_code = 200 /\ WellFormed(ArrivedRows(data)))
          => ads_response.status_code = 200

\* A summary over rows of which one has clicks and no impressions and
\* another impressions and no clicks, and one is all zero.
C7_Witness ==
    /\ AdsOk
    /\ \E k \in 1..Len(results) : results[k].impressions = 0 /\ results[k].clicks > 0
    /\ \E k \in 1..Len(results) : results[k].clicks = 0 /\ results[k].impressions > 0
    /\ \E k \in 1..Len(results) :
          results[k].clicks = 0 /\ results[k].impressions = 0 /\ results[k].spend_usd = 0

\* C8: the aggregate ctr, cpc and cpm are computed from the totals over
\* all rows (clicks / impressions * 100, spend / clicks,
\* spend / impressions * 1000, each to 2 decimals, 0 for a zero
\* denominator), not from the per-row ratios; the totals being sums over
\* the rows in arrival order, the result does not depend on how the rows
\* are split into chunks.
C8_AggregateFromTotals ==
    AdsOk =>
        LET rows == ArrivedRows(data)
            impressions == CounterSum(rows, "impressions")
            clicks == CounterSum(rows, "clicks")
            spend == SpendSum(rows)
            summary == ads_response.content.summary
        IN  /\ IF impressions = 0 THEN summary.ctr = 0 /\ summary.cpm = 0
               ELSE /\ Nearest(summary.ctr, clicks * 10000, impressions)
                    /\ Nearest(summary.cpm, spend * 1000, impressions)
            /\ IF clicks = 0 THEN summary.cpc = 0
               ELSE Nearest(summary.cpc, spend, clicks)

\* A summary over several chunks whose aggregate ctr and cpc differ from
\* the averages of the per-row values.
C8_Witness ==
    /\ AdsOk
    /\ Len(data) > 2
    /\ Len(results) > 1
    /\ ads_response.content.summary.ctr # MeanOf(results, "ctr")
    /\ ads_response.content.summary.cpc # MeanOf(results, "cpc")

\* The POST of this call failed: it raised, or the status is not 200.
UpstreamFailed ==
    /\ ads_pc = "returned"
    /\ \/ upstream.kind = "exception"
       \/ upstream.kind = "response" /\ upstream.status_code # 200

NothingReturned ==
    /\ "summary" \notin DOMAIN ads_response.content
    /\ "records" \notin DOMAIN ads_response.content

\* C9 as stated: whenever the Ads-API call fails (non-200 status or a
\* transport exception) the answer carries the upstream status and body,
\* holds no summary and no records, and the request was issued exactly
\* once.
C9_FailureCarriesUpstreamStatusAndBody ==
    UpstreamFailed =>
        /\ ads_response.status_code = upstream.status_code
        /\ "details" \in DOMAIN ads_response.content
        /\ ads_response.content.details = upstream.text
        /\ NothingReturned
        /\ ads_posts = 1

\* C9, amended: a non-200 upstream response is answered with the upstream
\* status code and the upstream body; a transport exception, which has
\* neither, is answered with status 500 and the exception's message; in
\* both cases no summary and no records are returned, no row is folded,
\* and the request was issued exactly once.
C9_FailureReportedOnce ==
    UpstreamFailed =>
        /\ upstream.kind = "response" =>
              /\ ads_response.status_code = upstream.status_code
              /\ "details" \in DOMAIN ads_response.content
              /\ ads_response.content.details = upstream.text
        /\ upstream.kind = "exception" =>
              /\ ads_response.status_code = 500
              /\ ads_response.content.error = <<"Request failed: ", upstream.text>>
        /\ NothingReturned
        /\ results = <<>>
        /\ ads_posts = 1

\* The Ads API answered 429 with a body, and the call has passed both on.
C9_Witness ==
    /\ UpstreamFailed
    /\ upstream.status_code = 429
    /\ upstream.text # ""
    /\ ads_response.status_code = 429
    /\ ads_response.content.details = upstream.text

\* C12: in every reachable state of the fold the list of per-row
\* records holds at most 25 entries, however many rows have arrived.
C12_AtMost25RecordsRetained == Len(results) <= RecordsCap

\* A counter of a row, 0 when the key or the row's metrics are absent
DefensiveCounter(row, name) ==
    IF row.metrics = None THEN 0 ELSE Counter(row, name)

RECURSIVE DefensiveSum(_, _)
DefensiveSum(rows, name) ==
    IF rows = <<>> THEN 0
    ELSE DefensiveCounter(Head(rows), name) + DefensiveSum(Tail(rows), name)

\* C13: whatever keys are missing from the rows (segments, date, metrics,
\* impressions, clicks, cost_micros, conversions) or from the chunks
\* (results), a 200 answer from the Ads API is folded to a summary in
\* which every absent counter counts as 0; no shape of missing keys ends
\* the call without a summary.
C13_MissingKeysDefaultToZero ==
    (ads_pc = "returned" /\ upstream.kind = "response" /\ upstream.status_code = 200) =>
        /\ ads_response.status_code = 200
        /\ "summary" \in DOMAIN ads_response.content
        /\ LET rows == ArrivedRows(data)
               summary == ads_response.content.summary
           IN  /\ summary.impressions = DefensiveSum(rows, "impressions")
               /\ summary.clicks = DefensiveSum(rows, "clicks")
               /\ summary.conversions = DefensiveSum(rows, "conversions")

----------------------------------------------------------------------------
(* SettingsService (services/settings_service.py), the api_keys table      *)
(* (models/api_key_model.py) and encryption (utils/encryption.py).         *)
(* A row is [id, service_name, key_value]; updated_at is left out.         *)

\* EncryptionManager.encrypt: a falsy plain text is returned as it is,
\* anything else becomes a Fernet token.  The token is kept as the text
\* it decrypts to; its IV and timestamp, which differ from one call to
\* the next, are read by nothing.
encrypt(plain_text) ==
    IF plain_text = "" THEN [fernet |-> FALSE, text |-> plain_text]
    ELSE [fernet |-> TRUE, text |-> plain_text]

\* EncryptionManager.decrypt
decrypt(encrypted_text) ==
    IF ~encrypted_text.fernet /\ encrypted_text.text = "" THEN ""
    ELSE IF encrypted_text.fernet THEN encrypted_text.text
    ELSE "[decryption failed]"

\* db.query(APIKey).filter(APIKey.service_name == service_name)
RowsOf(table, service_name) == {row \in table : row.service_name = service_name}

\* .first(): None, or the row found (the one of lowest id)
first(rows) ==
    IF rows = {} THEN None
    ELSE Some(CHOOSE row \in rows : \A other \in rows : row.id <= other.id)

APIKey(id, service_name, key_value) ==
    [id |-> id, service_name |-> service_name, key_value |-> key_value]

\* An add_or_update_key that inserts a row whether or not one exists.
add_or_update_key_always_insert(table, cache, id, service_name, key_value) ==
    [table    |-> table \cup {APIKey(id, service_name, encrypt(key_value))},
     cache    |-> Put(cache, service_name, key_value),
     inserted |-> TRUE,
     response |-> [status  |-> "success",
                   message |-> <<"API key for ", service_name, " updated successfully.">>]]

\* SettingsService.add_or_update_key (settings_service.py:30-47): the
\* table and the cache after the commit, whether a row was inserted, and
\* the dict returned.  id is the id a new row gets.
add_or_update_key(table, cache, id, service_name, key_value) ==
    LET encrypted_value == encrypt(key_value)
        existing == first(RowsOf(table, service_name))
    IN  [table    |-> IF existing # None
                      THEN (table \ {existing[1]})
                               \cup {[existing[1] EXCEPT !.key_value = encrypted_value]}
                      ELSE table \cup {APIKey(id, service_name, encrypted_value)},
         cache    |-> Put(cache, service_name, key_value),
         inserted |-> existing = None,
         response |-> [status  |-> "success",
                       message |-> <<"API key for ", service_name, " updated successfully.">>]]

\* dict.pop(key, None)
Pop(dict, key) == {entry \in dict : entry[1] # key}

\* SettingsService.delete_key (settings_service.py:49-58)
delete_key(table, cache, service_name) ==
    LET key == first(RowsOf(table, service_name))
    IN  IF key = None
        THEN [table    |-> table,
              cache    |-> cache,
              response |-> [status  |-> "error",
                            message |-> <<"No key found for ", service_name, ".">>]]
        ELSE [table    |-> table \ {key[1]},
              cache    |-> Pop(cache, service_name),
              response |-> [status  |-> "success",
                            message |-> <<service_name, " key deleted.">>]]

(* Inputs of the SettingsService calls *)
MaxRows == 3        \* rows inserted in one run

Services == {"google_ads_refresh", "google_ads_access", "sendgrid"}
KeyValues == {"1//r", "ya29.a", ""}

NoSetCall == [op |-> "none", service_name |-> "", key_value |-> ""]
NoSetResponse == [status |-> "", message |-> <<>>]

\* An empty table and an empty cache (settings_service.py:9)
SettingsInit ==
    /\ api_keys = {}
    /\ next_id = 1
    /\ global_settings_cache = {}
    /\ set_pc = "idle"
    /\ set_call = NoSetCall
    /\ set_response = NoSetResponse

\* POST /settings/update (settings_routes.py:54-58)
AddOrUpdateKey ==
    /\ set_pc = "idle"
    /\ \E service_name \in Services, key_value \in KeyValues :
          LET done == add_or_update_key(api_keys, global_settings_cache, next_id,
                                        service_name, key_value)
          IN  /\ done.inserted => next_id <= MaxRows
              /\ set_call' = [op |-> "add_or_update_key",
                              service_name |-> service_name, key_value |-> key_value]
              /\ api_keys' = done.table
              /\ next_id' = IF done.inserted THEN next_id + 1 ELSE next_id
              /\ global_settings_cache' = done.cache
              /\ set_response' = done.response
    /\ set_pc' = "returned"
    /\ UNCHANGED <<ml_vars, roi_vars, ads_vars, race_vars>>

\* DELETE /settings/delete/{service_name} (settings_routes.py:60-64)
DeleteKey ==
    /\ set_pc = "idle"
    /\ \E service_name \in Services :
          LET done == delete_key(api_keys, global_settings_cache, service_name)
          IN  /\ set_call' = [op |-> "delete_key",
                              service_name |-> service_name, key_value |-> ""]
              /\ api_keys' = done.table
              /\ global_settings_cache' = done.cache
              /\ set_response' = done.response
    /\ set_pc' = "returned"
    /\ UNCHANGED next_id
    /\ UNCHANGED <<ml_vars, roi_vars, ads_vars, race_vars>>

\* The call has returned; the table and the cache stay.
SettingsCallDone ==
    /\ set_pc = "returned"
    /\ set_pc' = "idle"
    /\ set_call' = NoSetCall
    /\ set_response' = NoSetResponse
    /\ UNCHANGED <<api_keys, next_id, global_settings_cache>>
    /\ UNCHANGED <<ml_vars, roi_vars, ads_vars, race_vars>>

SettingsNext ==
    \/ AddOrUpdateKey
    \/ DeleteKey
    \/ SettingsCallDone

----------------------------------------------------------------------------
(* Claims about SettingsService *)

StoredServices == {row.service_name : row \in api_keys}

\* A SettingsService call completes in this step.
SettingsCallCompletes == set_pc = "idle" /\ set_pc' = "returned"

\* The cache entries of the services other than service_name stay.
OtherEntriesKept(service_name) ==
    Pop(global_settings_cache', service_name) = Pop(global_settings_cache, service_name)

\* C16: from an empty table and an empty global_settings_cache, after any
\* sequence of completed add_or_update_key and delete_key calls the table
\* holds at most one row per service_name and the cache has an entry for
\* a service only if the table has a row for it; the entry is the value
\* most recently written for the service: a completed add_or_update_key
\* sets the service's entry to its key_value, which is also what the
\* service's row decrypts to, a delete_key that finds a
\* row removes the row and the entry, and no call touches another
\* service's entry; a delete_key of a service with no row reports an
\* error and changes neither the table nor the cache.
C16_StoreAndCacheAgree ==
    /\ [](/\ \A service_name \in Services :
                Cardinality(RowsOf(api_keys, service_name)) <= 1
          /\ Keys(global_settings_cache) \subseteq StoredServices)
    /\ [][SettingsCallCompletes =>
            LET service_name == set_call'.service_name
            IN  /\ OtherEntriesKept(service_name)
                /\ set_call'.op = "add_or_update_key" =>
                      /\ service_name \in Keys(global_settings_cache')
                      /\ Get(global_settings_cache', service_name) = set_call'.key_value
                      /\ RowsOf(api_keys', service_name) # {}
                      /\ \A row \in RowsOf(api_keys', service_name) :
                            decrypt(row.key_value) = set_call'.key_value
                /\ (set_call'.op = "delete_key" /\ RowsOf(api_keys, service_name) # {}) =>
                      /\ RowsOf(api_keys', service_name) = {}
                      /\ service_name \notin Keys(global_settings_cache')
                /\ (set_call'.op = "delete_key" /\ RowsOf(api_keys, service_name) = {}) =>
                      /\ set_response'.status = "error"
                      /\ api_keys' = api_keys
                      /\ global_settings_cache' = global_settings_cache]_vars

\* A delete_key of a service without a row has reported its error, after
\* rows of two services were inserted and one of them deleted again; the
\* other service's row and entry are in place.
C16_Witness ==
    /\ set_pc = "returned"
    /\ set_call.op = "delete_key"
    /\ set_response.status = "error"
    /\ next_id = 3
    /\ Cardinality(api_keys) = 1
    /\ Keys(global_settings_cache) = StoredServices

----------------------------------------------------------------------------
(* Claims about the token cache and the key store *)

\* The plaintext a key store holds for a service, if it has a row
StoredKeyIn(table, service_name) ==
    LET key == first(RowsOf(table, service_name))
    IN  IF key = None THEN None ELSE Some(decrypt(key[1].key_value))

StoredKey(service_name) == StoredKeyIn(api_keys, service_name)

\* A get_ads_summary call runs in this step up to its first return or to
\* its loops.
AdsSummaryCalled == ads_pc = "idle" /\ ads_pc' # "idle"

\* C11: a get_ads_summary call that finds the token cache empty turns to
\* the key store: with both "google_ads_refresh" and "google_ads_access"
\* stored it makes the POST with those tokens and puts them in the token
\* cache under "latest"; with either missing it answers 401 and makes no
\* POST.  A call that finds the token cache populated does not answer
\* from the key store and leaves the token cache as it is.
C11_FallbackToKeyStore ==
    [][AdsSummaryCalled =>
          IF "latest" \notin Keys(google_auth_cache)
          THEN LET refresh_token == StoredKey("google_ads_refresh")
                   access_token == StoredKey("google_ads_access")
               IN  IF TruthyStr(refresh_token) /\ TruthyStr(access_token)
                   THEN /\ ads_posts' = 1
                        /\ google_auth_cache' =
                              Put(google_auth_cache, "latest",
                                  [access_token  |-> access_token,
                                   refresh_token |-> refresh_token])
                   ELSE /\ ads_response'.status_code = 401
                        /\ ads_posts' = 0
          ELSE /\ ads_response' \notin {NoTokens, TokenLoadFailed}
               /\ google_auth_cache' = google_auth_cache]_vars

\* C14: when google_callback has answered, the exchanged token is in the
\* token cache under "latest", and its refresh token and its access
\* token, each when present, are in the key store under
\* "google_ads_refresh" and "google_ads_access"; these are the entries a
\* later get_ads_summary with an empty token cache looks for.
C14_CallbackPersistsTokens ==
    [][google_auth_cache' # google_auth_cache =>
          /\ "latest" \in Keys(google_auth_cache')
          /\ LET token == Get(google_auth_cache', "latest")
             IN  /\ TruthyStr(token.refresh_token) =>
                       StoredKeyIn(api_keys', "google_ads_refresh") = token.refresh_token
                 /\ TruthyStr(token.access_token) =>
                       StoredKeyIn(api_keys', "google_ads_access") = token.access_token]_vars

----------------------------------------------------------------------------
(* Concurrent calls on the upload cache (main.py:93-109, 152-180).         *)
(* analyze_roi and cache_status are plain functions, run in worker         *)
(* threads; upload_data is a coroutine, suspended at `await file.read()`.  *)
(* A step is one access to uploaded_data_cache with the code up to the     *)
(* next one; nothing is locked.                                            *)

MaxUploaders == 2   \* upload_data calls that can be in flight together

Uploaders == 1..MaxUploaders

\* The files of the concurrent uploads: two datasets with both required
\* columns and different revenue sums, one without revenue, a file type
\* that is not supported, and bytes the reader rejects.
RaceFiles ==
    { [filename |-> <<"l", ".", "c", "s", "v">>,
       content  |-> Content("csv", DataFrame(<<"email", "revenue">>,
                                             << <<1, 50000>>, <<2, 150000>> >>))],
      [filename |-> <<"l", ".", "j", "s", "o", "n">>,
       content  |-> Content("json", DataFrame(<<"email", "revenue">>,
                                              << <<1, 12345>> >>))],
      [filename |-> <<"L", ".", "C", "S", "V">>,
       content  |-> Content("csv", DataFrame(<<"email", "spend">>, << <<1, 700>> >>))],
      [filename |-> <<"l", ".", "t", "x", "t">>,
       content  |-> Content("csv", DataFrame(<<"email", "revenue">>,
                                             << <<1, 12345>> >>))],
      [filename |-> <<"l", ".", "c", "s", "v">>,
       content  |-> Content("junk", NoTable)] }

NoFile == [filename |-> <<>>, content |-> Content("junk", NoTable)]
NoResponse == [none |-> TRUE]

\* A cache that holds df and nothing else
OneSlot(df) == {<<"latest", df>>}

\* A sum taken over the dataset in the slot at the time of the sum, when
\* that one has the required columns, and not over the local df.
FrameSummedFromSlot(df, cache) ==
    IF "latest" \in Keys(cache)
          /\ {"email", "revenue"} \subseteq ColumnSet(Get(cache, "latest"))
    THEN Get(cache, "latest") ELSE df

\* The dataset whose revenue column is summed (main.py:101): the local
\* df; the cache is not read again.
FrameSummed(df, cache) == df

RaceInit ==
    /\ up_pc = [u \in Uploaders |-> "idle"]
    /\ up_file = [u \in Uploaders |-> NoFile]
    /\ up_response = [u \in Uploaders |-> NoResponse]
    /\ an_pc = "idle"
    /\ an_df = NoTable
    /\ an_response = NoResponse
    /\ st_pc = "idle"
    /\ st_response = NoResponse

roi_call_vars == <<roi_pc, roi_call, roi_response>>

\* upload_data is called and awaits file.read() (main.py:153-155)
UploadStart(u) ==
    /\ up_pc[u] = "idle"
    /\ \E file \in RaceFiles : up_file' = [up_file EXCEPT ![u] = file]
    /\ up_pc' = [up_pc EXCEPT ![u] = "reading"]
    /\ UNCHANGED <<uploaded_data_cache, up_response, an_pc, an_df, an_response,
                   st_pc, st_response>>
    /\ UNCHANGED <<ml_vars, roi_call_vars, ads_vars, set_vars>>

\* The read is done: the rest of upload_data runs without another await
\* (main.py:157-172)
UploadFinish(u) ==
    /\ up_pc[u] = "reading"
    /\ LET result == upload_data(up_file[u], uploaded_data_cache)
       IN  /\ uploaded_data_cache' = result[1]
           /\ up_response' = [up_response EXCEPT ![u] = result[2]]
    /\ up_pc' = [up_pc EXCEPT ![u] = "returned"]
    /\ UNCHANGED <<up_file, an_pc, an_df, an_response, st_pc, st_response>>
    /\ UNCHANGED <<ml_vars, roi_call_vars, ads_vars, set_vars>>

UploadDone(u) ==
    /\ up_pc[u] = "returned"
    /\ up_pc' = [up_pc EXCEPT ![u] = "idle"]
    /\ up_file' = [up_file EXCEPT ![u] = NoFile]
    /\ up_response' = [up_response EXCEPT ![u] = NoResponse]
    /\ UNCHANGED <<uploaded_data_cache, an_pc, an_df, an_response, st_pc, st_response>>
    /\ UNCHANGED <<ml_vars, roi_call_vars, ads_vars, set_vars>>

UploadStep == \E u \in Uploaders : UploadStart(u) \/ UploadFinish(u) \/ UploadDone(u)

\* analyze_roi without a request: `if "latest" not in uploaded_data_cache`
\* (main.py:93-94)
AnalyzeCheck ==
    /\ an_pc = "idle"
    /\ IF "latest" \notin Keys(uploaded_data_cache)
       THEN /\ an_response' = AnalyzeCache(uploaded_data_cache)
            /\ an_pc' = "returned"
       ELSE /\ an_pc' = "found"
            /\ UNCHANGED an_response
    /\ UNCHANGED <<uploaded_data_cache, up_pc, up_file, up_response, an_df,
                   st_pc, st_response>>
    /\ UNCHANGED <<ml_vars, roi_call_vars, ads_vars, set_vars>>

\* df = uploaded_data_cache["latest"] (main.py:96); KeyError when the key
\* is gone
AnalyzeRead ==
    /\ an_pc = "found"
    /\ IF "latest" \notin Keys(uploaded_data_cache)
       THEN /\ an_response' = Raised("KeyError")
            /\ an_pc' = "returned"
            /\ UNCHANGED an_df
       ELSE /\ an_df' = Get(uploaded_data_cache, "latest")
            /\ an_pc' = "read"
            /\ UNCHANGED an_response
    /\ UNCHANGED <<uploaded_data_cache, up_pc, up_file, up_response, st_pc, st_response>>
    /\ UNCHANGED <<ml_vars, roi_call_vars, ads_vars, set_vars>>

\* The column check on the local df (main.py:97-98)
AnalyzeColumns ==
    /\ an_pc = "read"
    /\ IF ~({"email", "revenue"} \subseteq ColumnSet(an_df))
       THEN /\ an_response' = AnalyzeCache(OneSlot(an_df))
            /\ an_pc' = "returned"
       ELSE /\ an_pc' = "checked"
            /\ UNCHANGED an_response
    /\ UNCHANGED <<uploaded_data_cache, up_pc, up_file, up_response, an_df,
                   st_pc, st_response>>
    /\ UNCHANGED <<ml_vars, roi_call_vars, ads_vars, set_vars>>

\* The sum, the roi and the result (main.py:100-109)
AnalyzeSum ==
    /\ an_pc = "checked"
    /\ an_response' = AnalyzeCache(OneSlot(FrameSummed(an_df, uploaded_data_cache)))
    /\ an_pc' = "returned"
    /\ UNCHANGED <<uploaded_data_cache, up_pc, up_file, up_response, an_df,
                   st_pc, st_response>>
    /\ UNCHANGED <<ml_vars, roi_call_vars, ads_vars, set_vars>>

AnalyzeDone ==
    /\ an_pc = "returned"
    /\ an_pc' = "idle"
    /\ an_df' = NoTable
    /\ an_response' = NoResponse
    /\ UNCHANGED <<uploaded_data_cache, up_pc, up_file, up_response, st_pc, st_response>>
    /\ UNCHANGED <<ml_vars, roi_call_vars, ads_vars, set_vars>>

\* cache_status: `if "latest" not in uploaded_data_cache` (main.py:177-178)
StatusCheck ==
    /\ st_pc = "idle"
    /\ IF "latest" \notin Keys(uploaded_data_cache)
       THEN /\ st_response' = cache_status(uploaded_data_cache)
            /\ st_pc' = "returned"
       ELSE /\ st_pc' = "found"
            /\ UNCHANGED st_response
    /\ UNCHANGED <<uploaded_data_cache, up_pc, up_file, up_response,
                   an_pc, an_df, an_response>>
    /\ UNCHANGED <<ml_vars, roi_call_vars, ads_vars, set_vars>>

\* df = uploaded_data_cache["latest"] and the answer built from that df
\* (main.py:179-180)
StatusRead ==
    /\ st_pc = "found"
    /\ st_response' = IF "latest" \notin Keys(uploaded_data_cache)
                      THEN Raised("KeyError")
                      ELSE cache_status(OneSlot(Get(uploaded_data_cache, "latest")))
    /\ st_pc' = "returned"
    /\ UNCHANGED <<uploaded_data_cache, up_pc, up_file, up_response,
                   an_pc, an_df, an_response>>
    /\ UNCHANGED <<ml_vars, roi_call_vars, ads_vars, set_vars>>

StatusDone ==
    /\ st_pc = "returned"
    /\ st_pc' = "idle"
    /\ st_response' = NoResponse
    /\ UNCHANGED <<uploaded_data_cache, up_pc, up_file, up_response,
                   an_pc, an_df, an_response>>
    /\ UNCHANGED <<ml_vars, roi_call_vars, ads_vars, set_vars>>

RaceNext ==
    \/ UploadStep
    \/ AnalyzeCheck
    \/ AnalyzeRead
    \/ AnalyzeColumns
    \/ AnalyzeSum
    \/ AnalyzeDone
    \/ StatusCheck
    \/ StatusRead
    \/ StatusDone

----------------------------------------------------------------------------
(* Claims about concurrent calls on the upload cache *)

\* Upload u writes the slot in this step.
UploadWrites(u) ==
    /\ up_pc[u] = "reading"
    /\ up_pc'[u] = "returned"
    /\ "message" \in DOMAIN up_response'[u]

\* The concurrent analyze_roi call has answered from the cache.
CacheSourced ==
    /\ an_pc = "returned"
    /\ "source" \in DOMAIN an_response

\* C15: under any interleaving of upload_data, cache_status and
\* cache-sourced analyze_roi calls, with no lock on the upload cache:
\* the slot, once populated, is never empty again, so the read that
\* follows the membership check never raises KeyError in analyze_roi or
\* cache_status; a cache-sourced result comes from one dataset, the local
\* df the call read from the slot, which passed the column check and
\* whose revenue column gives total_revenue and roi; the slot changes
\* only in a step in which an upload succeeds, and then holds that
\* upload's dataset, so it ends up with the dataset of the last writer.
C15_UnsynchronisedCacheIsConsistent ==
    /\ [][/\ uploaded_data_cache # {} => uploaded_data_cache' # {}
          /\ (an_pc = "found" /\ an_pc' = "read") =>
                an_df' = Get(uploaded_data_cache, "latest")
          /\ uploaded_data_cache' # uploaded_data_cache =>
                \E u \in Uploaders :
                   /\ UploadWrites(u)
                   /\ uploaded_data_cache' = OneSlot(up_file[u].content.table)
          /\ \A u \in Uploaders :
                UploadWrites(u) =>
                   Get(uploaded_data_cache', "latest") = up_file[u].content.table]_vars
    /\ [](/\ an_response # Raised("KeyError")
          /\ st_response # Raised("KeyError")
          /\ CacheSourced =>
                /\ {"email", "revenue"} \subseteq ColumnSet(an_df)
                /\ an_response.total_revenue = SeqSum(Column(an_df, "revenue"))
                /\ an_response.roi = Roi(an_response.total_revenue, CacheAdSpend)
                /\ \E file \in RaceFiles : an_df = file.content.table)

\* A cache-sourced result has been returned while both uploads have
\* written since the call read its df: the slot now holds a dataset
\* without a revenue column, and another upload's dataset, with a
\* different revenue sum, was written in between.
C15_Witness ==
    /\ CacheSourced
    /\ Get(uploaded_data_cache, "latest") # an_df
    /\ ~({"email", "revenue"} \subseteq ColumnSet(Get(uploaded_data_cache, "latest")))
    /\ \A u \in Uploaders : up_pc[u] = "returned" /\ "message" \in DOMAIN up_response[u]
    /\ \E u \in Uploaders :
          /\ up_file[u].content.table # an_df
          /\ {"email", "revenue"} \subseteq ColumnSet(up_file[u].content.table)

----------------------------------------------------------------------------
(* Specifications *)

Init == MatchInit /\ RoiInit /\ AdsInit /\ SettingsInit /\ RaceInit

SpecMatch == Init /\ [][MatchNext]_vars

SpecRoi == Init /\ [][RoiNext]_vars

SpecAds == Init /\ [][AdsNext]_vars

SpecSettings == Init /\ [][SettingsNext]_vars

\* The token cache, the key store, and the get_ads_summary calls that end
\* in the token lookup, before the POST
TokensNext ==
    \/ GoogleCallback
    \/ AddOrUpdateKey
    \/ DeleteKey
    \/ SettingsCallDone
    \/ AdsSummaryNoToken
    \/ AdsSummaryDone

SpecTokens == Init /\ [][TokensNext]_vars

SpecRace == Init /\ [][RaceNext]_vars

=============================================================================
